---- MODULE Spec2Model ----
(***************************************************************************)
(* Wave-function-collapse solver of bevy-collapsor: the tile model of      *)
(* components.rs, the rule extraction, rotation expansion, observation and *)
(* propagation of wcf.rs (system `collapse`), and the rule-grid edit of    *)
(* input.rs (system `pick_tile`).                                          *)
(***************************************************************************)
EXTENDS Integers, Sequences, FiniteSets, TLC

VARIABLES
    width,            \* output grid: number of columns (x range)
    height,           \* output grid: number of rows (y range)
    rule_tiles,       \* OptionalTile component of every rule cell
    events,           \* unread RulesNeedUpdateEvent of collapse's EventReader
    alloweds,         \* rules.alloweds : Tile -> (Orientation -> set of Tile)
    tiles,            \* TileSuperposition.tiles component of every output cell
    waves,            \* collapse's local `waves` (defined while it runs)
    need_propagation, \* collapse's local `need_propagation`
    pc,               \* position of the frame loop
    pops,             \* number of pops of the while loop in the current tick
    propagated,       \* the entities the while loop popped in the current tick
    edits,            \* number of pick_tile runs that changed the rule grid
    prototype,        \* harness of make_rotated_tile: self.index
    orientation,      \* harness of make_rotated_tile: original_orientation
    rotation,         \* harness of make_rotated_tile: rotation
    made,             \* harness of make_rotated_tile: the Option<Tile> made
    start,            \* harness of rotate: the orientation before the calls
    amounts,          \* harness of rotate: the amounts of the calls made
    selection         \* the TileSelection resource: [rotation, prototype]

vars == <<width, height, rule_tiles, events, alloweds, tiles, waves,
          need_propagation, pc, pops, propagated, edits,
          prototype, orientation, rotation, made, start, amounts, selection>>

solver_vars == <<width, height, rule_tiles, events, alloweds, tiles, waves,
                 need_propagation, pc, pops, propagated, edits>>

harness_vars ==
    <<prototype, orientation, rotation, made, start, amounts, selection>>

----------------------------------------------------------------------------
(* Bounds of the model *)

\* the output grid has 1..MaxWidth columns and 1..MaxHeight rows
MaxWidth == 2
MaxHeight == 2
\* the rule grid is RuleSize x RuleSize (rule_width = rule_height in the code)
RuleSize == 2
\* the palette entries the user picks from: FirstPrototype .. +PaletteCount-1
FirstPrototype == 11
PaletteCount == 4
\* number of pick_tile runs that change the rule grid
MaxEdits == 2
\* number of rule cells the cursor reaches
MaxHover == 2
\* number of filled cells of the rule grids the extraction is applied to
MaxFilled == 2
\* |rotation| of the tile selection and of make_rotated_tile's argument
MaxRotation == 4
\* number of successive calls of rotate on one orientation
MaxRotates == 3
\* number of filled cells of the rule grids the solver is run on
MaxAuthored == 3
\* largest |event.y as i32| of a MouseWheel event
MaxWheel == 2
\* largest Tuning.collapse_per_frame that is configured
MaxCollapsePerFrame == 2
\* number of cells of the one-row output grid
RowWidth == 3

----------------------------------------------------------------------------
(* components.rs: Orientation *)

North == 0
East == 1
South == 2
West == 3

OrientationValues == <<North, East, South, West>>

Orientations == {OrientationValues[i] : i \in 1..Len(OrientationValues)}

rotated_plus_one(o, amount) == (o + amount + 1) % 4

\* the remainder that keeps the sign of the dividend
rotated_truncating(o, amount) ==
    IF o + amount >= 0 THEN (o + amount) % 4 ELSE 0 - ((0 - (o + amount)) % 4)

\* Orientation::rotate / rotated: rem_euclid(4) of (self as i32) + amount
rotated(o, amount) == (o + amount) % 4

\* North steps the way South does
offset_north_as_south(o, coordinate) ==
    CASE o = North -> <<coordinate[1], coordinate[2] - 1>>
      [] o = East  -> <<coordinate[1] - 1, coordinate[2]>>
      [] o = South -> <<coordinate[1], coordinate[2] - 1>>
      [] o = West  -> <<coordinate[1] + 1, coordinate[2]>>

\* Coordinates are <<x, y>>
offset(o, coordinate) ==
    CASE o = North -> <<coordinate[1], coordinate[2] + 1>>
      [] o = East  -> <<coordinate[1] - 1, coordinate[2]>>
      [] o = South -> <<coordinate[1], coordinate[2] - 1>>
      [] o = West  -> <<coordinate[1] + 1, coordinate[2]>>

----------------------------------------------------------------------------
(* components.rs: Equivalences, Prototype, Tile *)

\* the palette of Rules::from_world, one Equivalences per prototype index
Palette == <<
    "HalfTurn", "None", "HalfTurn", "QuarterTurn", "None",
    "QuarterTurn", "None", "None", "None", "QuarterTurn",
    "None", "None", "None", "HalfTurn", "QuarterTurn",
    "None", "None", "QuarterTurn", "None", "None",
    "QuarterTurn", "None", "None", "None", "HalfTurn" >>

PrototypeIndexes == 0..(Len(Palette) - 1)

equivalences(index) == Palette[index + 1]

make_tile(index, o) == [prototype_index |-> index, orientation |-> o]

make_rotated_tile_half_to_north(index, original_orientation, amount) ==
    LET o == rotated(original_orientation, amount)
        canonical ==
            CASE equivalences(index) = "None" -> o
              [] equivalences(index) = "HalfTurn" -> North
              [] equivalences(index) = "QuarterTurn" -> North
    IN make_tile(index, canonical)

\* the class QuarterTurn keeps the rotated orientation
make_rotated_tile_quarter_kept(index, original_orientation, amount) ==
    LET o == rotated(original_orientation, amount)
        canonical ==
            CASE equivalences(index) = "None" -> o
              [] equivalences(index) = "HalfTurn" ->
                    IF o \in {North, South} THEN North ELSE East
              [] equivalences(index) = "QuarterTurn" -> o
    IN make_tile(index, canonical)

make_rotated_tile(index, original_orientation, amount) ==
    LET o == rotated(original_orientation, amount)
        canonical ==
            CASE equivalences(index) = "None" -> o
              [] equivalences(index) = "HalfTurn" ->
                    IF o \in {North, South} THEN North ELSE East
              [] equivalences(index) = "QuarterTurn" -> North
    IN make_tile(index, canonical)

\* Option<T> is the empty set (None) or a singleton (Some)
None == {}
Some(v) == {v}

\* TileSelection::default(): no prototype, rotation 0
DefaultSelection == [rotation |-> 0, prototype |-> None]

\* the tile is made from North turned, without the prototype's equivalences
selection_make_tile_uncanonical(sel_prototype, sel_rotation) ==
    IF sel_prototype = None
    THEN None
    ELSE Some(make_tile(CHOOSE p \in sel_prototype : TRUE,
                        rotated(North, sel_rotation)))

\* TileSelection::make_tile
selection_make_tile(sel_prototype, sel_rotation) ==
    IF sel_prototype = None
    THEN None
    ELSE Some(make_rotated_tile(CHOOSE p \in sel_prototype : TRUE, North, sel_rotation))

----------------------------------------------------------------------------
(* HashMap helpers: a map is a function whose DOMAIN is its key set *)

EmptyMap == [key \in {} |-> {}]

\* HashMap::entry(key).or_default()
entry_or_default(map, key, default) ==
    IF key \in DOMAIN map THEN map ELSE map @@ (key :> default)

\* t2 \in table[t].allowed[o], absent keys holding nothing
InAllowed(table, t, o, t2) ==
    /\ t \in DOMAIN table
    /\ o \in DOMAIN table[t]
    /\ t2 \in table[t][o]

----------------------------------------------------------------------------
(* wcf.rs: rule extraction (collapse, lines 73-102) *)

rule_width == RuleSize
rule_height == RuleSize

RuleCoords == (0..(rule_width - 1)) \X (0..(rule_height - 1))

get_tile_prototype_transposed(map, coordinates) ==
    IF coordinates[1] < 0 \/ coordinates[2] < 0 THEN None
    ELSE IF coordinates[1] >= rule_height THEN None
    ELSE IF coordinates[2] >= rule_width THEN None
    ELSE map[<<coordinates[2], coordinates[1]>>]

\* map is vec![vec![_; rule_width]; rule_height], indexed map[x][y]
get_tile_prototype(map, coordinates) ==
    IF coordinates[1] < 0 \/ coordinates[2] < 0 THEN None
    ELSE IF coordinates[1] >= rule_height THEN None
    ELSE IF coordinates[2] >= rule_width THEN None
    ELSE map[coordinates]

\* allowed.entry(orientation).or_default().insert(neighbour_tile)
InsertAllowed(table, tile, o, neighbour_tile) ==
    [table EXCEPT ![tile] =
        [entry_or_default(@, o, {}) EXCEPT ![o] = @ \cup {neighbour_tile}]]

RECURSIVE ExtractOrientations(_, _, _, _, _)
ExtractOrientations(table, map, tile, coords, i) ==
    IF i > Len(OrientationValues) THEN table
    ELSE LET o == OrientationValues[i]
             neighbour_tile == get_tile_prototype(map, offset(o, coords))
             next == IF neighbour_tile # None
                     THEN InsertAllowed(table, tile, o,
                                        CHOOSE n \in neighbour_tile : TRUE)
                     ELSE table
         IN ExtractOrientations(next, map, tile, coords, i + 1)

\* the loops over x in 0..rule_width and y in 0..rule_height, cell n = x * rule_height + y
RECURSIVE ExtractCells(_, _, _)
ExtractCells(table, map, n) ==
    IF n >= rule_width * rule_height THEN table
    ELSE LET coords == <<n \div rule_height, n % rule_height>>
             next == IF map[coords] # None
                     THEN LET tile == CHOOSE t \in map[coords] : TRUE
                          IN ExtractOrientations(
                                 entry_or_default(table, tile, EmptyMap),
                                 map, tile, coords, 1)
                     ELSE table
         IN ExtractCells(next, map, n + 1)

ExtractRules(map) == ExtractCells(EmptyMap, map, 0)

----------------------------------------------------------------------------
(* wcf.rs: expand_with_rotations *)

RotatedValuesUnrotated(allowed_values, tile_rotations) == allowed_values

\* the loop over allowed_values: every allowed tile rotated by tile_rotations
RotatedValues(allowed_values, tile_rotations) ==
    {make_rotated_tile(a.prototype_index, a.orientation, tile_rotations) :
        a \in allowed_values}

\* the allowed tiles are rotated, the orientation they are stored under is not
RECURSIVE ExpandConstraintsSameSide(_, _, _, _, _)
ExpandConstraintsSameSide(expanded, rotated_tile, constraints, todo, tile_rotations) ==
    IF todo = {} THEN expanded
    ELSE LET o == CHOOSE x \in todo : TRUE
             next == [expanded EXCEPT ![rotated_tile] =
                        [entry_or_default(@, o, {}) EXCEPT ![o] =
                            @ \cup RotatedValues(constraints[o], tile_rotations)]]
         IN ExpandConstraintsSameSide(next, rotated_tile, constraints,
                                      todo \ {o}, tile_rotations)

RECURSIVE ExpandConstraints(_, _, _, _, _)
ExpandConstraints(expanded, rotated_tile, constraints, todo, tile_rotations) ==
    IF todo = {} THEN expanded
    ELSE LET o == CHOOSE x \in todo : TRUE
             o2 == rotated(o, tile_rotations)
             next == [expanded EXCEPT ![rotated_tile] =
                        [entry_or_default(@, o2, {}) EXCEPT ![o2] =
                            @ \cup RotatedValues(constraints[o], tile_rotations)]]
         IN ExpandConstraints(next, rotated_tile, constraints, todo \ {o},
                              tile_rotations)

RECURSIVE ExpandRotations(_, _, _, _)
ExpandRotations(expanded, tile, constraints, tile_rotations) ==
    IF tile_rotations >= Len(OrientationValues) THEN expanded
    ELSE LET rotated_tile == make_rotated_tile(tile.prototype_index,
                                               tile.orientation, tile_rotations)
             next == ExpandConstraints(
                         entry_or_default(expanded, rotated_tile, EmptyMap),
                         rotated_tile, constraints, DOMAIN constraints,
                         tile_rotations)
         IN ExpandRotations(next, tile, constraints, tile_rotations + 1)

RECURSIVE ExpandTiles(_, _, _)
ExpandTiles(expanded, constraints, todo) ==
    IF todo = {} THEN expanded
    ELSE LET tile == CHOOSE t \in todo : TRUE
         IN ExpandTiles(ExpandRotations(expanded, tile, constraints[tile], 0),
                        constraints, todo \ {tile})

expand_with_rotations(constraints) ==
    ExpandTiles(EmptyMap, constraints, DOMAIN constraints)

----------------------------------------------------------------------------
(* main.rs: the output grid and its connectivity (setup) *)

Cells == (0..(width - 1)) \X (0..(height - 1))

get_tile_entity_transposed(coordinates) ==
    IF coordinates[1] < 0 \/ coordinates[2] < 0 THEN None
    ELSE IF coordinates[1] >= height THEN None
    ELSE IF coordinates[2] >= width THEN None
    ELSE Some(coordinates)

\* map_entities is vec![vec![_; height]; width], indexed map[x][y]
get_tile_entity(coordinates) ==
    IF coordinates[1] < 0 \/ coordinates[2] < 0 THEN None
    ELSE IF coordinates[1] >= width THEN None
    ELSE IF coordinates[2] >= height THEN None
    ELSE Some(coordinates)

\* Connectivity.connectivity of the cell at coord
Connectivity(coord) ==
    [o \in {d \in Orientations : get_tile_entity(offset(d, coord)) # None} |->
        CHOOSE e \in get_tile_entity(offset(o, coord)) : TRUE]

----------------------------------------------------------------------------
(* wcf.rs: the solver (collapse, lines 105-214; observe) *)

PossibleTilesAllOrientations(table) ==
    {make_tile(t.prototype_index, o) : t \in DOMAIN table, o \in Orientations}

\* one tile, facing North, for every prototype of rules.prototypes
PossibleTilesOfPrototypes(table) == {make_tile(i, North) : i \in PrototypeIndexes}

\* possible_tiles: the keys of rules.alloweds (lines 106-109)
PossibleTiles(table) == DOMAIN table

ResetTilesKeepingImpossible(old_tiles, possible_tiles) ==
    [c \in Cells |-> IF old_tiles[c] = {} THEN {} ELSE possible_tiles]

ResetTilesUnlessNoRule(old_tiles, possible_tiles) ==
    [c \in Cells |-> IF possible_tiles = {} THEN old_tiles[c] ELSE possible_tiles]

\* every TileSuperposition.tiles is replaced by possible_tiles (lines 110-112)
ResetTiles(old_tiles, possible_tiles) == [c \in Cells |-> possible_tiles]

\* the order of tiles_query.iter(): cell n = x * height + y
CellAt(n) == <<n \div height, n % height>>

usize_MAX == 2147483647

\* the loop "Find the smallest > 1 entropy" (lines 137-151)
RECURSIVE MinEntropyLoop(_, _, _, _)
MinEntropyLoop(ws, i, min_entropy, min_entropy_entities) ==
    IF i >= width * height THEN min_entropy_entities
    ELSE LET entropy == Cardinality(ws[CellAt(i)])
             lower == entropy < min_entropy /\ entropy > 1
             min2 == IF lower THEN entropy ELSE min_entropy
             ents == IF lower THEN {} ELSE min_entropy_entities
         IN MinEntropyLoop(ws, i + 1, min2,
                IF entropy = min2 THEN ents \cup {CellAt(i)} ELSE ents)

MinEntropyEntitiesNone(ws) == {}

\* the entities of least entropy above 0, so a resolved cell is observed again
MinEntropyEntitiesFromOne(ws) ==
    {c \in Cells :
        /\ Cardinality(ws[c]) >= 1
        /\ \A d \in Cells :
              Cardinality(ws[d]) >= 1 => Cardinality(ws[c]) <= Cardinality(ws[d])}

\* the first match only: the entity of least index among those of least entropy
MinEntropyEntitiesFirst(ws) ==
    LET all == MinEntropyLoop(ws, 0, usize_MAX, {})
    IN {c \in all : \A d \in all : c[1] * height + c[2] <= d[1] * height + d[2]}

\* every entity of entropy above 1, whatever the least entropy is
MinEntropyEntitiesAnyUndecided(ws) == {c \in Cells : Cardinality(ws[c]) > 1}

MinEntropyEntities(ws) == MinEntropyLoop(ws, 0, usize_MAX, {})

\* the wave is left as it is, the clear and the insert being without effect
observe_without_clear(multi_tile_prototype) == {multi_tile_prototype}

\* observe: the waves it can leave, one for every tile the rng can choose
observe(multi_tile_prototype) ==
    {{observed} : observed \in multi_tile_prototype}

intersection_keep_left(a, b) == a

\* the neighbour's wave is returned whatever all_allowed_neighbour holds
intersection_keep_right(a, b) == b

\* intersection(a, b): the elements of a that b contains
intersection(a, b) == {e \in a : e \in b}

ImpactedAlways(new_allowed_values, wave) == TRUE

\* "If impacted" (line 196)
Impacted(new_allowed_values, wave) == new_allowed_values # wave

AllAllowedNeighbourUnrestricted(table, propagating_wave, o) ==
    UNION {IF o \in DOMAIN table[value] THEN table[value][o] ELSE DOMAIN table :
               value \in propagating_wave}

\* the allowed sets of one tile of the wave only
AllAllowedNeighbourOfOneValue(table, propagating_wave, o) ==
    LET value == CHOOSE v \in propagating_wave : TRUE
    IN IF o \in DOMAIN table[value] THEN table[value][o] ELSE {}

\* all_allowed_neighbour (lines 182-189); a value with no entry for the
\* orientation adds nothing
AllAllowedNeighbour(table, propagating_wave, o) ==
    UNION {IF o \in DOMAIN table[value] THEN table[value][o] ELSE {} :
               value \in propagating_wave}

RECURSIVE PropagateOrientationsFirstImpacted(_, _, _, _, _)
PropagateOrientationsFirstImpacted(st, table, propagating_entity, propagating_wave, i) ==
    IF i > Len(OrientationValues) THEN st
    ELSE LET o == OrientationValues[i]
             propagating_connectivity == Connectivity(propagating_entity)
             neighbour == propagating_connectivity[o]
             new_allowed_values ==
                intersection(AllAllowedNeighbour(table, propagating_wave, o),
                             st.waves[neighbour])
         IN IF /\ o \in DOMAIN propagating_connectivity
               /\ Impacted(new_allowed_values, st.waves[neighbour])
            THEN [waves |-> [st.waves EXCEPT ![neighbour] = new_allowed_values],
                  need_propagation |-> st.need_propagation \cup {neighbour}]
            ELSE PropagateOrientationsFirstImpacted(st, table, propagating_entity,
                                                    propagating_wave, i + 1)

\* the loop over Orientation::values() of one propagating entity (lines 179-202)
\* st = [waves, need_propagation]
RECURSIVE PropagateOrientations(_, _, _, _, _)
PropagateOrientations(st, table, propagating_entity, propagating_wave, i) ==
    IF i > Len(OrientationValues) THEN st
    ELSE LET o == OrientationValues[i]
             propagating_connectivity == Connectivity(propagating_entity)
             next ==
                IF o \in DOMAIN propagating_connectivity
                THEN LET neighbour == propagating_connectivity[o]
                         new_allowed_values ==
                            intersection(
                                AllAllowedNeighbour(table, propagating_wave, o),
                                st.waves[neighbour])
                     IN IF Impacted(new_allowed_values, st.waves[neighbour])
                        THEN [waves |-> [st.waves EXCEPT
                                            ![neighbour] = new_allowed_values],
                              need_propagation |->
                                  st.need_propagation \cup {neighbour}]
                        ELSE st
                ELSE st
         IN PropagateOrientations(next, table, propagating_entity,
                                  propagating_wave, i + 1)

PropagateEntityThroughEmpty(ws, need, table, propagating_entity) ==
    PropagateOrientations([waves |-> ws,
                           need_propagation |-> need \ {propagating_entity}],
                          table, propagating_entity, ws[propagating_entity], 1)

\* one turn of the while loop (lines 162-203) that pops propagating_entity
PropagateEntity(ws, need, table, propagating_entity) ==
    LET popped == [waves |-> ws,
                   need_propagation |-> need \ {propagating_entity}]
        propagating_wave == ws[propagating_entity]
    IN IF propagating_wave = {}
       THEN popped
       ELSE PropagateOrientations(popped, table, propagating_entity,
                                  propagating_wave, 1)

\* the while loop (lines 162-203) run until need_propagation is empty: the
\* set of the waves it can end with, the entity popped each turn being any
\* element of need_propagation (iter().next() of a HashSet, line 164)
RECURSIVE PropagateAll(_, _, _)
PropagateAll(ws, need, table) ==
    IF need = {} THEN {ws}
    ELSE UNION {LET st == PropagateEntity(ws, need, table, propagating_entity)
                IN PropagateAll(st.waves, st.need_propagation, table) :
                    propagating_entity \in need}

----------------------------------------------------------------------------
(* components.rs: Tuning *)

\* the values of Tuning.collapse_per_frame the inspector admits (min = 1)
CollapsePerFrameValues == 1..MaxCollapsePerFrame

----------------------------------------------------------------------------
(* display.rs: draw_map *)

\* the TileSuperposition component of a cell; collapse writes tiles only, so
\* dirty keeps its Default
TileSuperpositionOf(c) == [tiles |-> tiles[c], dirty |-> FALSE]

\* what draw_map spawns under the entity of a cell (lines 86-125)
draw_map(multi_tile) ==
    LET entropy == Cardinality(multi_tile.tiles)
    IN CASE entropy = 0 -> "impossible_mesh"
         [] entropy = 1 -> "model"
         [] OTHER -> "undecided_mesh"

----------------------------------------------------------------------------
(* The frame loop: collapse (Update stage), then pick_tile (PostUpdate)    *)
(*   pc = "collapse"  : collapse is about to run                           *)
(*   pc = "expand"    : the authored table is stored, before line 103      *)
(*   pc = "observe"   : the tiles are reset, before line 115               *)
(*   pc = "propagate" : at the head of the while loop, or after it         *)
(*   pc = "input"     : collapse has returned, pick_tile is about to run   *)

\* the wave of a cell: collapse's local copy while it runs, else the component
CellWave(c) == IF pc = "propagate" THEN waves[c] ELSE tiles[c]

\* lines 68-102: the events are read, the rule grid is stored as constraints
RulesChanged ==
    /\ pc = "collapse"
    /\ events > 0
    /\ events' = 0
    /\ alloweds' = ExtractRules(rule_tiles)
    /\ pc' = "expand"
    /\ UNCHANGED <<width, height, rule_tiles, tiles, waves, need_propagation,
                   pops, propagated, edits, harness_vars>>

\* lines 103-112: rotation expansion, then every cell is reset
ExpandAndReset ==
    /\ pc = "expand"
    /\ alloweds' = expand_with_rotations(alloweds)
    /\ tiles' = ResetTiles(tiles, PossibleTiles(alloweds'))
    /\ pc' = "observe"
    /\ UNCHANGED <<width, height, rule_tiles, events, waves, need_propagation,
                   pops, propagated, edits, harness_vars>>

\* lines 115-161: the local copy, the choice of a cell and of one of its tiles
Observe ==
    /\ \/ pc = "collapse" /\ events = 0
       \/ pc = "observe"
    /\ LET min_entropy_entities == MinEntropyEntities(tiles)
       IN IF min_entropy_entities = {}
          THEN /\ waves' = tiles
               /\ need_propagation' = {}
          ELSE \E min_entropy_entity \in min_entropy_entities :
               \E observed \in observe(tiles[min_entropy_entity]) :
                  /\ waves' = [tiles EXCEPT ![min_entropy_entity] = observed]
                  /\ need_propagation' = {min_entropy_entity}
    /\ pc' = "propagate"
    /\ pops' = 0
    /\ propagated' = {}
    /\ UNCHANGED <<width, height, rule_tiles, events, alloweds, tiles, edits,
                   harness_vars>>

\* the lookup of line 185 made with entry().or_default(), which stores an
\* empty set for every orientation a tile of the popped wave has no entry for
PropagateStoringEntries ==
    /\ pc = "propagate"
    /\ need_propagation # {}
    /\ \E propagating_entity \in need_propagation :
          LET st == PropagateEntity(waves, need_propagation, alloweds,
                                    propagating_entity)
          IN /\ waves' = st.waves
             /\ need_propagation' = st.need_propagation
             /\ propagated' = propagated \cup {propagating_entity}
             /\ alloweds' =
                   [t \in DOMAIN alloweds |->
                       IF t \in waves[propagating_entity]
                       THEN [o \in Orientations |->
                                IF o \in DOMAIN alloweds[t]
                                THEN alloweds[t][o] ELSE {}]
                       ELSE alloweds[t]]
    /\ pops' = pops + 1
    /\ UNCHANGED <<width, height, rule_tiles, events, tiles, pc,
                   edits, harness_vars>>

\* lines 162-203: one turn of the while loop, any entity of the set popped
Propagate ==
    /\ pc = "propagate"
    /\ need_propagation # {}
    /\ \E propagating_entity \in need_propagation :
          LET st == PropagateEntity(waves, need_propagation, alloweds,
                                    propagating_entity)
          IN /\ waves' = st.waves
             /\ need_propagation' = st.need_propagation
             /\ propagated' = propagated \cup {propagating_entity}
    /\ pops' = pops + 1
    /\ UNCHANGED <<width, height, rule_tiles, events, alloweds, tiles, pc,
                   edits, harness_vars>>

\* the result is applied whether or not need_propagation is empty
ApplyResultBeforeDrained ==
    /\ pc = "propagate"
    /\ tiles' = waves
    /\ waves' = EmptyMap
    /\ pc' = "input"
    /\ pops' = 0
    /\ propagated' = {}
    /\ UNCHANGED <<width, height, rule_tiles, events, alloweds,
                   need_propagation, edits, harness_vars>>

\* lines 206-214: the result is applied to the entities, collapse returns
ApplyResult ==
    /\ pc = "propagate"
    /\ need_propagation = {}
    /\ tiles' = waves
    /\ waves' = EmptyMap
    /\ pc' = "input"
    /\ pops' = 0
    /\ propagated' = {}
    /\ UNCHANGED <<width, height, rule_tiles, events, alloweds,
                   need_propagation, edits, harness_vars>>

----------------------------------------------------------------------------
(* input.rs: pick_tile *)

\* the palette entries the tile selection is taken from
Prototypes ==
    {i \in PrototypeIndexes :
        i >= FirstPrototype /\ i < FirstPrototype + PaletteCount}

Rotations == (0 - MaxRotation)..MaxRotation

\* the tiles selection_make_tile yields
SelectableTiles ==
    {make_rotated_tile(i, North, r) : i \in Prototypes, r \in Rotations}

\* the rule cells the cursor reaches, in the order they were spawned:
\* for x in 0..rule_width { for y in 0..rule_height }, x outer and y inner
HoverCells ==
    {<<n \div rule_height, n % rule_height>> :
        n \in {m \in 0..(MaxHover - 1) : m < rule_width * rule_height}}

\* at most one rule cell lies under the cursor
HoveredSets == {{}} \cup {{c} : c \in HoverCells}

\* changed is set for every hovered cell, whether or not its tile differs
pick_tile_any_hovered(button, sel_prototype, sel_rotation, hovered) ==
    IF button = "None"
    THEN UNCHANGED <<rule_tiles, events, edits>>
    ELSE LET new_tile == IF button = "Left"
                         THEN selection_make_tile(sel_prototype, sel_rotation)
                         ELSE None
             changed == hovered # {}
         IN /\ changed => edits < MaxEdits
            /\ rule_tiles' = [c \in RuleCoords |->
                                IF c \in hovered THEN new_tile ELSE rule_tiles[c]]
            /\ events' = IF changed THEN events + 1 ELSE events
            /\ edits' = IF changed THEN edits + 1 ELSE edits

pick_tile(button, sel_prototype, sel_rotation, hovered) ==
    IF button = "None"
    THEN UNCHANGED <<rule_tiles, events, edits>>
    ELSE LET new_tile == IF button = "Left"
                         THEN selection_make_tile(sel_prototype, sel_rotation)
                         ELSE None
             changed == \E c \in hovered : rule_tiles[c] # new_tile
         IN /\ changed => edits < MaxEdits
            /\ rule_tiles' = [c \in RuleCoords |->
                                IF c \in hovered /\ rule_tiles[c] # new_tile
                                THEN new_tile ELSE rule_tiles[c]]
            /\ events' = IF changed THEN events + 1 ELSE events
            /\ edits' = IF changed THEN edits + 1 ELSE edits

PickTile ==
    /\ pc = "input"
    /\ \/ pick_tile("None", None, 0, {})
       \/ \E hovered \in HoveredSets :
             pick_tile("Right", None, 0, hovered)
       \/ \E sel_prototype \in {None} \cup {Some(i) : i \in Prototypes} :
          \E sel_rotation \in Rotations :
          \E hovered \in HoveredSets :
             pick_tile("Left", sel_prototype, sel_rotation, hovered)
    /\ pc' = "collapse"
    /\ UNCHANGED <<width, height, alloweds, tiles, waves, need_propagation,
                   pops, propagated, harness_vars>>

----------------------------------------------------------------------------
(* The program: startup, then frames *)

HarnessIdle ==
    /\ prototype = 0
    /\ orientation = North
    /\ rotation = 0
    /\ made = None
    /\ start = North
    /\ amounts = <<>>
    /\ selection = DefaultSelection

Init ==
    /\ width \in 1..MaxWidth
    /\ height \in 1..MaxHeight
    /\ rule_tiles = [c \in RuleCoords |-> None]
    /\ events = 0
    /\ alloweds = EmptyMap
    /\ tiles = [c \in Cells |-> {}]
    /\ waves = EmptyMap
    /\ need_propagation = {}
    /\ pc = "collapse"
    /\ pops = 0
    /\ propagated = {}
    /\ edits = 0
    /\ HarnessIdle

Next ==
    \/ RulesChanged
    \/ ExpandAndReset
    \/ Observe
    \/ Propagate
    \/ ApplyResult
    \/ PickTile

Spec == Init /\ [][Next]_vars

----------------------------------------------------------------------------
(* Rule extraction applied to the rule grids of at most MaxFilled tiles *)

SolverIdle ==
    /\ width = 1
    /\ height = 1
    /\ alloweds = EmptyMap
    /\ tiles = [c \in Cells |-> {}]
    /\ waves = EmptyMap
    /\ need_propagation = {}
    /\ pc = "collapse"
    /\ pops = 0
    /\ propagated = {}
    /\ edits = 0

InitRules ==
    /\ SolverIdle
    /\ HarnessIdle
    /\ events = 1
    /\ \E filled \in {f \in SUBSET RuleCoords : Cardinality(f) <= MaxFilled} :
       \E content \in [filled -> SelectableTiles] :
          rule_tiles = [c \in RuleCoords |->
                           IF c \in filled THEN Some(content[c]) ELSE None]

NextRules ==
    \/ RulesChanged
    \/ ExpandAndReset

SpecRules == InitRules /\ [][NextRules]_vars

----------------------------------------------------------------------------
(* make_tile and make_rotated_tile applied to every prototype, orientation *)
(* and rotation                                                            *)

\* prototype.make_tile(orientation)
MakeTile ==
    /\ made = None
    /\ made' = Some(make_tile(prototype, orientation))
    /\ UNCHANGED <<prototype, orientation, rotation, start, amounts, selection,
                   solver_vars>>

\* prototype.make_rotated_tile(orientation, rotation)
MakeRotatedTile ==
    /\ made = None
    /\ made' = Some(make_rotated_tile(prototype, orientation, rotation))
    /\ UNCHANGED <<prototype, orientation, rotation, start, amounts, selection,
                   solver_vars>>

\* the tile made is rotated again, by any amount
RotateAgain ==
    /\ made # None
    /\ orientation' = (CHOOSE t \in made : TRUE).orientation
    /\ rotation' \in Rotations
    /\ made' = None
    /\ UNCHANGED <<prototype, start, amounts, selection, solver_vars>>

InitTile ==
    /\ SolverIdle
    /\ events = 0
    /\ rule_tiles = [c \in RuleCoords |-> None]
    /\ prototype \in PrototypeIndexes
    /\ orientation \in Orientations
    /\ rotation \in Rotations
    /\ made = None
    /\ start = North
    /\ amounts = <<>>
    /\ selection = DefaultSelection

NextTile ==
    \/ MakeTile
    \/ MakeRotatedTile
    \/ RotateAgain

SpecTile == InitTile /\ [][NextTile]_vars

----------------------------------------------------------------------------
(* The solver run, frame after frame, on the rule grids of at most         *)
(* MaxAuthored tiles put without turning the wheel, no button pressed      *)

\* the tiles the selection yields while its rotation is the Default
AuthoredTiles == {make_rotated_tile(i, North, 0) : i \in Prototypes}

\* pick_tile with no button pressed
PickNothing ==
    /\ pc = "input"
    /\ pick_tile("None", None, 0, {})
    /\ pc' = "collapse"
    /\ UNCHANGED <<width, height, alloweds, tiles, waves, need_propagation,
                   pops, propagated, harness_vars>>

InitSolve ==
    /\ width \in 1..MaxWidth
    /\ height \in 1..MaxHeight
    /\ alloweds = EmptyMap
    /\ tiles = [c \in Cells |-> {}]
    /\ waves = EmptyMap
    /\ need_propagation = {}
    /\ pc = "collapse"
    /\ pops = 0
    /\ propagated = {}
    /\ edits = 0
    /\ HarnessIdle
    /\ events = 1
    /\ \E filled \in {f \in SUBSET RuleCoords : Cardinality(f) <= MaxAuthored} :
       \E content \in [filled -> AuthoredTiles] :
          rule_tiles = [c \in RuleCoords |->
                           IF c \in filled THEN Some(content[c]) ELSE None]

NextSolve ==
    \/ RulesChanged
    \/ ExpandAndReset
    \/ Observe
    \/ Propagate
    \/ ApplyResult
    \/ PickNothing

SpecSolve == InitSolve /\ [][NextSolve]_vars

----------------------------------------------------------------------------
(* The solver run, frame after frame, on an output grid of one row of      *)
(* RowWidth cells, under every rule grid of tiles put without turning the  *)
(* wheel                                                                   *)

InitRow ==
    /\ width = RowWidth
    /\ height = 1
    /\ alloweds = EmptyMap
    /\ tiles = [c \in Cells |-> {}]
    /\ waves = EmptyMap
    /\ need_propagation = {}
    /\ pc = "collapse"
    /\ pops = 0
    /\ propagated = {}
    /\ edits = 0
    /\ HarnessIdle
    /\ events = 1
    /\ \E filled \in SUBSET RuleCoords :
       \E content \in [filled -> AuthoredTiles] :
          rule_tiles = [c \in RuleCoords |->
                           IF c \in filled THEN Some(content[c]) ELSE None]

SpecRow == InitRow /\ [][NextSolve]_vars

----------------------------------------------------------------------------
(* input.rs: the tile selection, set by palette_select and on_mouse_wheel  *)
(* and read by TileSelection::make_tile                                    *)

\* event.y as i32 of the MouseWheel events
WheelValues == (0 - MaxWheel)..MaxWheel

\* on_mouse_wheel: selection.rotation += event.y as i32, for one event
OnMouseWheel ==
    /\ \E y \in WheelValues :
          /\ selection.rotation + y \in Rotations
          /\ selection' = [selection EXCEPT !.rotation = @ + y]
    /\ UNCHANGED <<prototype, orientation, rotation, made, start, amounts,
                   solver_vars>>

\* palette_select: a click on a palette entity selects its prototype
PaletteSelect ==
    /\ \E prototype_index \in PrototypeIndexes :
          selection' = [selection EXCEPT !.prototype = Some(prototype_index)]
    /\ UNCHANGED <<prototype, orientation, rotation, made, start, amounts,
                   solver_vars>>

\* selection.make_tile(), the Option<Tile> it returns kept in made
SelectionMakeTile ==
    /\ made' = selection_make_tile(selection.prototype, selection.rotation)
    /\ UNCHANGED <<prototype, orientation, rotation, start, amounts, selection,
                   solver_vars>>

InitSelection ==
    /\ SolverIdle
    /\ HarnessIdle
    /\ events = 0
    /\ rule_tiles = [c \in RuleCoords |-> None]

NextSelection ==
    \/ OnMouseWheel
    \/ PaletteSelect
    \/ SelectionMakeTile

SpecSelection == InitSelection /\ [][NextSelection]_vars

----------------------------------------------------------------------------
(* Orientation::rotate called on one orientation, as rotate_orientation does *)

\* orientation.rotate(amount)
Rotate ==
    /\ Len(amounts) < MaxRotates
    /\ \E amount \in Rotations :
          /\ orientation' = rotated(orientation, amount)
          /\ amounts' = Append(amounts, amount)
    /\ UNCHANGED <<prototype, rotation, made, start, selection, solver_vars>>

InitRotate ==
    /\ SolverIdle
    /\ events = 0
    /\ rule_tiles = [c \in RuleCoords |-> None]
    /\ prototype = 0
    /\ rotation = 0
    /\ made = None
    /\ start \in Orientations
    /\ orientation = start
    /\ amounts = <<>>
    /\ selection = DefaultSelection

NextRotate == Rotate

SpecRotate == InitRotate /\ [][NextRotate]_vars

----------------------------------------------------------------------------
(* The frame loop with the while loop of collapse running on *)

SpecFair == Spec /\ WF_vars(Propagate)

\* the schedule runs collapse and pick_tile every frame, for ever
SpecTicks == Spec /\ WF_vars(Next)

----------------------------------------------------------------------------
(* Properties *)

Resolved(c) == Cardinality(CellWave(c)) = 1

\* the table holds the single tile A, allowed next to itself on all four sides
SingleTileTable(table, A) ==
    /\ DOMAIN table = {A}
    /\ DOMAIN table[A] = Orientations
    /\ \A o \in Orientations : table[A][o] = {A}

\* the rule grid holds A and B only, A one step West of B
RuleGridAB(A, B) ==
    \E cB \in RuleCoords :
        /\ offset(West, cB) \in RuleCoords
        /\ rule_tiles = [c \in RuleCoords |->
                            IF c = offset(West, cB) THEN Some(A)
                            ELSE IF c = cB THEN Some(B) ELSE None]

\* C1: outside the step that resets the cells on a rule change, no step of
\* observation, propagation or write-back adds a tile to any cell's wave
EntropyNeverIncreases ==
    [][pc = "expand" \/ \A c \in Cells : CellWave(c)' \subseteq CellWave(c)]_vars

\* C1 witness: the loop has drained after narrowing two cells to waves that
\* are not empty, so one of them by propagation
EntropyDecreasedByPropagation ==
    /\ pc = "propagate"
    /\ need_propagation = {}
    /\ \E c, d \in Cells :
          /\ c # d
          /\ waves[c] # tiles[c]
          /\ waves[d] # tiles[d]
          /\ Cardinality(tiles[d]) > Cardinality(waves[d])
          /\ waves[c] # {}
          /\ waves[d] # {}

\* the sum of the sizes of the waves, weighted above the number of entities
\* that wait for propagation
PropagationMeasure ==
    (Cardinality(Cells) + 1) *
        Cardinality({<<c, t>> \in Cells \X PossibleTiles(alloweds) : t \in waves[c]})
    + Cardinality(need_propagation)

\* C2: whenever the while loop of collapse is running, need_propagation is
\* eventually empty, whatever entities are popped; every pop lowers a measure
\* that is never negative
PropagationTerminates ==
    /\ [][(pc = "propagate" /\ pc' = "propagate")
            => PropagationMeasure' < PropagationMeasure]_vars
    /\ [](pc = "propagate" => <>(need_propagation = {}))

\* C2 witness: two entities wait for propagation at once, so the order of the
\* pops is a choice
TwoEntitiesNeedPropagation ==
    /\ pc = "propagate"
    /\ Cardinality(need_propagation) >= 2

\* C3: in the expanded table, t2 allowed next to t1 towards o implies t1
\* allowed next to t2 towards the opposite orientation
AdjacencySymmetry ==
    pc # "expand" =>
        \A t1 \in DOMAIN alloweds : \A o \in DOMAIN alloweds[t1] :
        \A t2 \in alloweds[t1][o] :
            InAllowed(alloweds, t2, rotated(o, 2), t1)

\* C3 witness: an expanded table in which a HalfTurn tile allows another tile
\* towards the East
SymmetricEastWestEntry ==
    /\ pc = "observe"
    /\ \E t1 \in DOMAIN alloweds :
          /\ equivalences(t1.prototype_index) = "HalfTurn"
          /\ East \in DOMAIN alloweds[t1]
          /\ \E t2 \in alloweds[t1][East] : t2 # t1

\* C4: a propagating entity none of whose tiles has an entry for an
\* orientation leaves the wave of its neighbour in that orientation unchanged
MissingEntryLeavesNeighbour ==
    [][\A e \in Cells :
          (/\ pc = "propagate" /\ pc' = "propagate"
           /\ e \in need_propagation /\ e \notin need_propagation'
           /\ waves[e] # {})
          => \A o \in DOMAIN Connectivity(e) :
                (\A value \in waves[e] : o \notin DOMAIN alloweds[value])
                => waves'[Connectivity(e)[o]] = waves[Connectivity(e)[o]]]_vars

\* C5: the step that follows the reading of the rule grid leaves the table
\* expanded from the current rule grid in rules.alloweds and exactly its keys
\* in every cell, whatever the cells held
RuleChangeResets ==
    [][pc = "expand" =>
          /\ alloweds' = expand_with_rotations(ExtractRules(rule_tiles))
          /\ \A c \in Cells : tiles'[c] = DOMAIN alloweds'
          /\ pc' = "observe"]_vars

\* C5 witness: a rule change is being processed while one cell is resolved and
\* another is impossible, and the new table has keys
ResetOverProgress ==
    /\ pc = "expand"
    /\ alloweds # EmptyMap
    /\ \E c, d \in Cells : Cardinality(tiles[c]) = 1 /\ tiles[d] = {}

\* C6: with the single-tile table on a square grid every cell holds exactly
\* that tile, at every point after the reset
SingleTileResolvesAll ==
    \A A \in DOMAIN alloweds :
        (SingleTileTable(alloweds, A) /\ width = height /\ pc # "expand")
        => \A c \in Cells : CellWave(c) = {A}

\* C6 witness: a frame has ended on the 2 x 2 grid under the single-tile table
SingleTileSolved ==
    /\ pc = "input"
    /\ width = 2
    /\ height = 2
    /\ \E A \in DOMAIN alloweds : SingleTileTable(alloweds, A)

\* the 2 x 1 output grid after a frame, under the rules of the grid [A, B]
\* of two prototypes without symmetry
SolvedAB(A, B) ==
    /\ pc = "input"
    /\ width = 2
    /\ height = 1
    /\ RuleGridAB(A, B)
    /\ A.prototype_index # B.prototype_index
    /\ equivalences(A.prototype_index) = "None"
    /\ equivalences(B.prototype_index) = "None"

WestCell == offset(West, <<0, 0>>)
EastCell == <<0, 0>>

\* C7 as stated: both cells resolved means A in the west and B in the east,
\* rotated alike; otherwise some cell is impossible; never B west of A
TwoByOneOnlyAB ==
    \A A, B \in SelectableTiles :
        SolvedAB(A, B) =>
            /\ (Resolved(WestCell) /\ Resolved(EastCell)) =>
                  \E k \in 0..3 :
                     /\ tiles[WestCell] =
                          {make_rotated_tile(A.prototype_index, A.orientation, k)}
                     /\ tiles[EastCell] =
                          {make_rotated_tile(B.prototype_index, B.orientation, k)}
            /\ ~(Resolved(WestCell) /\ Resolved(EastCell)) =>
                  \E c \in Cells : tiles[c] = {}
            /\ ~ \E t \in tiles[WestCell], u \in tiles[EastCell] :
                    /\ t.prototype_index = B.prototype_index
                    /\ u.prototype_index = A.prototype_index

\* C7 amended: both cells resolved means A in the west and B in the east as
\* authored, or B in the west and A in the east, both turned by a half turn;
\* otherwise some cell is impossible
TwoByOneABOrHalfTurn ==
    \A A, B \in SelectableTiles :
        SolvedAB(A, B) =>
            /\ (Resolved(WestCell) /\ Resolved(EastCell)) =>
                  \/ /\ tiles[WestCell] = {A}
                     /\ tiles[EastCell] = {B}
                  \/ /\ tiles[WestCell] =
                          {make_rotated_tile(B.prototype_index, B.orientation, 2)}
                     /\ tiles[EastCell] =
                          {make_rotated_tile(A.prototype_index, A.orientation, 2)}
            /\ ~(Resolved(WestCell) /\ Resolved(EastCell)) =>
                  \E c \in Cells : tiles[c] = {}

\* C7 witness: the 2 x 1 grid is solved with B, half-turned, in the west
HalfTurnedBInTheWest ==
    \E A, B \in SelectableTiles :
        /\ SolvedAB(A, B)
        /\ tiles[WestCell] = {make_rotated_tile(B.prototype_index, B.orientation, 2)}
        /\ tiles[EastCell] = {make_rotated_tile(A.prototype_index, A.orientation, 2)}

\* C8: before rotation expansion t2 is in Allowed[t][o] exactly when a rule
\* cell holding t has the rule cell at o.offset holding t2, no entry is empty,
\* and the grid [A, B] gives Allowed[A][East] = {B}, Allowed[B][West] = {A}
\* and nothing else
ExtractionOfDirectNeighbours ==
    pc = "expand" =>
        /\ \A t, t2 \in SelectableTiles : \A o \in Orientations :
              InAllowed(alloweds, t, o, t2) <=>
                 \E c \in RuleCoords :
                    /\ rule_tiles[c] = Some(t)
                    /\ offset(o, c) \in RuleCoords
                    /\ rule_tiles[offset(o, c)] = Some(t2)
        /\ DOMAIN alloweds \subseteq SelectableTiles
        /\ \A t \in DOMAIN alloweds : \A o \in DOMAIN alloweds[t] :
              /\ o \in Orientations
              /\ alloweds[t][o] # {}
              /\ alloweds[t][o] \subseteq SelectableTiles
        /\ \A A, B \in SelectableTiles :
              (RuleGridAB(A, B) /\ A # B) =>
                 /\ DOMAIN alloweds = {A, B}
                 /\ DOMAIN alloweds[A] = {East}
                 /\ alloweds[A][East] = {B}
                 /\ DOMAIN alloweds[B] = {West}
                 /\ alloweds[B][West] = {A}

\* C8 witness: the grid [A, B] of two different tiles has been read
ExtractedAB ==
    /\ pc = "expand"
    /\ \E A, B \in SelectableTiles : RuleGridAB(A, B) /\ A # B

\* C9: the four rotations of any base orientation give 4 tiles for a
\* prototype of class None, 2 for HalfTurn and 1 for QuarterTurn
EquivalenceCardinality ==
    \A base \in Orientations :
        Cardinality({make_rotated_tile(prototype, base, k) : k \in 0..3}) =
            CASE equivalences(prototype) = "None" -> 4
              [] equivalences(prototype) = "HalfTurn" -> 2
              [] equivalences(prototype) = "QuarterTurn" -> 1

\* C9 witness: a HalfTurn prototype has made its East tile
HalfTurnMadeEast ==
    /\ equivalences(prototype) = "HalfTurn"
    /\ made = Some(make_tile(prototype, East))

\* t is one of the tiles make_rotated_tile returns
Canonical(t) ==
    \E o \in Orientations :
        make_rotated_tile(t.prototype_index, o, 0) = t

\* C10 as stated: for any tile t made by a prototype, make_rotated_tile from
\* t's orientation with rotation 4 returns t
RotationClosureAnyTile ==
    \A t \in made :
        make_rotated_tile(t.prototype_index, t.orientation, 4) = t

\* C10 amended: make_rotated_tile from t's orientation with rotation 4 returns
\* the tile it returns with rotation 0, which is t for every tile that
\* make_rotated_tile returns
RotationClosure ==
    \A t \in made :
        /\ make_rotated_tile(t.prototype_index, t.orientation, 4) =
              make_rotated_tile(t.prototype_index, t.orientation, 0)
        /\ Canonical(t) =>
              make_rotated_tile(t.prototype_index, t.orientation, 4) = t

\* C10 witness: a QuarterTurn prototype has made a tile with a rotation that
\* is negative, from an orientation other than North
QuarterTurnMadeFromNegative ==
    /\ equivalences(prototype) = "QuarterTurn"
    /\ rotation < 0
    /\ orientation # North
    /\ made = Some(make_tile(prototype, North))

\* the sum of the amounts of a sequence of calls
RECURSIVE SumOfAmounts(_)
SumOfAmounts(seq) ==
    IF seq = <<>> THEN 0 ELSE Head(seq) + SumOfAmounts(Tail(seq))

\* the index in 0..3 that is congruent to n modulo 4
EuclideanIndex(n) ==
    LET span == 2 + MaxRotates * MaxRotation
    IN CHOOSE r \in 0..3 : \E q \in (0 - span)..span : n = 4 * q + r

\* C11: after any calls of rotate the orientation is the one whose index is
\* the non-negative remainder modulo 4 of the starting index plus the sum of
\* the amounts, so rotate(a) then rotate(b) is rotate(a + b); from North,
\* rotate(-2) gives South and a further rotate(1) gives West
RotateIsEuclidean ==
    /\ orientation \in Orientations
    /\ orientation = EuclideanIndex(start + SumOfAmounts(amounts))
    /\ (Len(amounts) > 0 /\ SumOfAmounts(amounts) \in Rotations) =>
           orientation = rotated(start, SumOfAmounts(amounts))
    /\ (start = North /\ amounts = <<0 - 2>>) => orientation = South
    /\ (start = North /\ amounts = <<0 - 2, 1>>) => orientation = West

\* C11 witness: rotate_orientation has run: from North, rotate(-2) and then
\* rotate(1)
RotateOrientationTestRun ==
    /\ start = North
    /\ amounts = <<0 - 2, 1>>
    /\ orientation = West

\* no rule cell is filled
RuleGridEmpty == \A c \in RuleCoords : rule_tiles[c] = None

\* C12: a rule grid with no filled cell is extracted and expanded to the
\* empty table; under the empty table every cell's wave is empty and a tick
\* observes nothing and pops nothing
EmptyRuleGridSolvesNothing ==
    /\ (RuleGridEmpty /\ pc \in {"expand", "observe"}) => alloweds = EmptyMap
    /\ (alloweds = EmptyMap /\ pc # "expand") =>
          /\ \A c \in Cells : tiles[c] = {}
          /\ pc = "propagate" =>
                /\ waves = tiles
                /\ need_propagation = {}
                /\ pops = 0

\* C12 witness: a tile was put on the rule grid and removed, and the tick
\* that read the empty rule grid has ended
EmptiedRuleGridProcessed ==
    /\ pc = "input"
    /\ edits = 2
    /\ events = 0
    /\ RuleGridEmpty
    /\ alloweds = EmptyMap

\* the component of a cell that reached a contradiction during solving
ContradictionReached == [tiles |-> {}, dirty |-> FALSE]

\* C13: after a tick under the empty table (no rule authored) the state of
\* every cell, and what rendering draws for it, differ from those of a
\* contradiction
NotConfiguredDistinctFromImpossible ==
    (alloweds = EmptyMap /\ pc = "input") =>
        \A c \in Cells :
            /\ TileSuperpositionOf(c) # ContradictionReached
            /\ draw_map(TileSuperpositionOf(c)) # draw_map(ContradictionReached)

\* C14: whatever number of steps per tick is configured, the while loop of a
\* tick has popped at most that many entities
PerTickStepBudget ==
    \A collapse_per_frame \in CollapsePerFrameValues :
        pops <= collapse_per_frame

\* the sum of the sizes of the waves of all cells
WaveSum(ws) ==
    Cardinality({<<c, t>> \in Cells \X PossibleTiles(alloweds) : t \in ws[c]})

\* between two ticks, no cell has an entropy above 1
StableOutput ==
    /\ pc \in {"input", "collapse"}
    /\ \A c \in Cells : Cardinality(tiles[c]) <= 1

\* C15: unless a rule change is pending, the ticks reach an output without a
\* cell of entropy above 1, and a tick that started with such a cell has
\* lowered the sum of the sizes of the waves
EventualStability ==
    /\ []<>(StableOutput \/ events > 0)
    /\ []((pc = "propagate" /\ \E c \in Cells : Cardinality(tiles[c]) > 1)
            => WaveSum(waves) < WaveSum(tiles))

\* C15 witness: the 2 x 2 grid is stable under a table of several tiles, two
\* of its cells resolved
StableAfterObservations ==
    /\ StableOutput
    /\ events = 0
    /\ width = 2
    /\ height = 2
    /\ Cardinality(DOMAIN alloweds) > 1
    /\ \E c, d \in Cells : c # d /\ Resolved(c) /\ Resolved(d)

\* C16: whichever entity each turn of the while loop pops, the waves the
\* loop ends with are the same, so they depend on the observation only.
\* The code does not have this property: a pop narrows neighbours that are
\* already resolved and a cell popped with an empty wave is skipped, so which
\* cell ends empty depends on the order of the pops
PropagationConfluent ==
    pc = "propagate" =>
        Cardinality(PropagateAll(waves, need_propagation, alloweds)) = 1

\* coordinates within [0, w) x [0, h)
InRange(coordinates, w, h) ==
    /\ coordinates[1] >= 0 /\ coordinates[1] < w
    /\ coordinates[2] >= 0 /\ coordinates[2] < h

\* C17: a cell has a Connectivity entry for o exactly when o.offset of its
\* coordinates is within the grid, the entry is the cell there, whose entry
\* for the opposite orientation is the cell itself; a lookup outside the
\* output grid or the rule grid yields None
ConnectivityOfTheGrid ==
    /\ \A c \in Cells : \A o \in Orientations :
          /\ o \in DOMAIN Connectivity(c) <=> InRange(offset(o, c), width, height)
          /\ o \in DOMAIN Connectivity(c) =>
                /\ Connectivity(c)[o] = offset(o, c)
                /\ rotated(o, 2) \in DOMAIN Connectivity(Connectivity(c)[o])
                /\ Connectivity(Connectivity(c)[o])[rotated(o, 2)] = c
    /\ \A x \in (0 - 1)..MaxWidth : \A y \in (0 - 1)..MaxHeight :
          get_tile_entity(<<x, y>>) =
              IF InRange(<<x, y>>, width, height) THEN Some(<<x, y>>) ELSE None
    /\ \A x \in (0 - 1)..rule_width : \A y \in (0 - 1)..rule_height :
          get_tile_prototype(rule_tiles, <<x, y>>) =
              IF InRange(<<x, y>>, rule_width, rule_height)
              THEN rule_tiles[<<x, y>>] ELSE None

\* C17 witness: on the 2 x 2 grid the first pop of a tick has narrowed the
\* two neighbours of the observed corner and left the fourth cell alone
CornerPropagatedToTwoNeighbours ==
    /\ pc = "propagate"
    /\ pops = 1
    /\ width = 2
    /\ height = 2
    /\ Cardinality({c \in Cells : waves[c] # tiles[c]}) = 3

\* C18: once the loop of a tick has drained, a propagation pass started from
\* any of the cells the loop popped changes no wave
PropagationIdempotent ==
    (pc = "propagate" /\ need_propagation = {}) =>
        \A again \in SUBSET propagated :
            PropagateAll(waves, again, alloweds) = {waves}

\* C18 witness: the loop has drained after popping three cells of which two
\* hold several tiles
DrainedAfterThreeCells ==
    /\ pc = "propagate"
    /\ need_propagation = {}
    /\ Cardinality(propagated) >= 3
    /\ Cardinality({c \in propagated : Cardinality(waves[c]) > 1}) >= 2

\* C19: a turn of the while loop leaves the wave of every cell of entropy 0
\* or 1 as it is, so a resolved cell keeps its tile through propagation
ResolvedNeighboursSkipped ==
    [][(pc = "propagate" /\ pc' = "propagate") =>
          \A c \in Cells :
              Cardinality(waves[c]) <= 1 => waves'[c] = waves[c]]_vars

\* C20: a turn of the while loop that pops a cell whose wave is empty changes
\* no wave and inserts no cell; a turn changes only neighbours of the cell it
\* pops, and only when that cell's wave is not empty
ContradictionDoesNotCascade ==
    [][(pc = "propagate" /\ pc' = "propagate") =>
          \E e \in need_propagation :
              /\ e \notin need_propagation'
              /\ waves[e] = {} =>
                    /\ waves' = waves
                    /\ need_propagation' = need_propagation \ {e}
              /\ \A c \in Cells :
                    waves'[c] # waves[c] =>
                        /\ waves[e] # {}
                        /\ \E o \in DOMAIN Connectivity(e) :
                              Connectivity(e)[o] = c]_vars

\* C20 witness: the loop has drained after popping a cell it had emptied,
\* next to which a cell still holds several tiles
EmptiedCellPoppedNextToUndecided ==
    /\ pc = "propagate"
    /\ need_propagation = {}
    /\ \E e \in propagated :
          /\ waves[e] = {}
          /\ tiles[e] # {}
          /\ \E o \in DOMAIN Connectivity(e) :
                Cardinality(waves[Connectivity(e)[o]]) > 1

\* C21: the step that observes takes a cell of entropy above 1 whose entropy
\* is the least among the cells of entropy above 1 and changes the wave of no
\* other cell; when no cell has an entropy above 1 it observes nothing
ObservationSelection ==
    [][(pc # "propagate" /\ pc' = "propagate") =>
          LET undecided == {c \in Cells : Cardinality(tiles[c]) > 1}
          IN /\ undecided = {} =>
                   /\ waves' = tiles
                   /\ need_propagation' = {}
             /\ undecided # {} =>
                   \E e \in undecided :
                      /\ need_propagation' = {e}
                      /\ \A c \in undecided :
                            Cardinality(tiles[e]) <= Cardinality(tiles[c])
                      /\ waves'[e] # tiles[e]
                      /\ \A c \in Cells \ {e} : waves'[c] = tiles[c]]_vars

\* C21 witness: a cell was observed while another cell held more tiles than
\* it and a third was resolved
ObservedAmongAllEntropies ==
    /\ pc = "propagate"
    /\ pops = 0
    /\ \E e \in need_propagation : \E b, c \in Cells :
          /\ Cardinality(tiles[b]) > Cardinality(tiles[e])
          /\ Cardinality(tiles[c]) = 1

\* C22: the step that observes a cell leaves in its wave exactly one tile,
\* which the wave held before, and that cell alone waits for propagation
ObservationOutcome ==
    [][(/\ pc # "propagate" /\ pc' = "propagate"
        /\ \E c \in Cells : Cardinality(tiles[c]) > 1) =>
          \E e \in Cells :
              /\ need_propagation' = {e}
              /\ \E t \in tiles[e] : waves'[e] = {t}
              /\ Cardinality(waves'[e]) = 1]_vars

\* C22 witness: the observed cell was the first popped, holds one of the
\* tiles it held before the observation, and a neighbour was narrowed
ObservedCellPropagatedFirst ==
    /\ pc = "propagate"
    /\ pops = 1
    /\ \E e \in propagated :
          /\ Cardinality(tiles[e]) > 1
          /\ Cardinality(waves[e]) = 1
          /\ waves[e] \subseteq tiles[e]
          /\ \E o \in DOMAIN Connectivity(e) :
                waves[Connectivity(e)[o]] # tiles[Connectivity(e)[o]]

\* C23: when collapse is about to observe, every cell of least entropy above
\* 1 can be the cell observed, with any tile of its wave as the tile observed
AnyTieCanBeObserved ==
    (pc = "observe" \/ (pc = "collapse" /\ events = 0)) =>
        LET undecided == {c \in Cells : Cardinality(tiles[c]) > 1}
            least == {c \in undecided :
                         \A d \in undecided :
                             Cardinality(tiles[c]) <= Cardinality(tiles[d])}
        IN \A c \in least : \A t \in tiles[c] :
              ENABLED (/\ Observe
                       /\ waves' = [tiles EXCEPT ![c] = {t}]
                       /\ need_propagation' = {c})

\* C23 witness: the cell observed is not the first of the cells that tied for
\* the least entropy above 1, a third cell holding fewer tiles
TieBrokenAwayFromFirst ==
    /\ pc = "propagate"
    /\ pops = 0
    /\ \E e \in need_propagation : \E c, d \in Cells :
          /\ c[1] < e[1]
          /\ Cardinality(tiles[c]) = Cardinality(tiles[e])
          /\ Cardinality(tiles[d]) < Cardinality(tiles[e])

\* C24: collapse observes only while no entity waits for propagation, pops
\* entities and nothing else until none waits, and only then writes the waves
\* back and returns; the next observation is in the next run of collapse
ObservationAndPropagationApart ==
    [][/\ (pc # "propagate" /\ pc' = "propagate") =>
             /\ pc \in {"collapse", "observe"}
             /\ need_propagation = {}
             /\ Cardinality(need_propagation') <= 1
       /\ (pc = "propagate" /\ pc' = "propagate") =>
             /\ need_propagation # {}
             /\ pops' = pops + 1
             /\ tiles' = tiles
       /\ (pc = "propagate" /\ pc' # "propagate") =>
             /\ need_propagation = {}
             /\ pc' = "input"
             /\ tiles' = waves
       /\ pc = "input" => pc' = "collapse"]_vars

\* C24 witness: a cell is observed in a tick that follows a tick whose
\* propagation narrowed two cells
ObservedAfterDrainedTick ==
    /\ pc = "propagate"
    /\ pops = 0
    /\ Cardinality(need_propagation) = 1
    /\ \E c, d \in Cells :
          /\ c # d
          /\ tiles[c] # DOMAIN alloweds
          /\ tiles[d] # DOMAIN alloweds

\* Allowed[t][o], an orientation without entry holding no tile
AllowedOf(t, o) == {t2 \in DOMAIN alloweds : InAllowed(alloweds, t, o, t2)}

\* C25: a turn of the while loop that pops a cell of non-empty wave W leaves
\* in every neighbour, towards o, its wave intersected with the union of
\* Allowed[t][o] over t in W, and the neighbour waits for propagation after
\* the turn exactly when its wave changed or it was waiting already
PropagationStepResult ==
    [][(pc = "propagate" /\ pc' = "propagate") =>
          \E e \in need_propagation :
              /\ e \notin need_propagation'
              /\ waves[e] # {} =>
                    \A o \in DOMAIN Connectivity(e) :
                        LET n == Connectivity(e)[o]
                            union_allowed == UNION {AllowedOf(t, o) : t \in waves[e]}
                            new_wave == waves[n] \cap union_allowed
                        IN /\ waves'[n] = new_wave
                           /\ n \in need_propagation' <=>
                                 (new_wave # waves[n] \/ n \in need_propagation)]_vars

\* C25 witness: a cell holding several tiles was popped and narrowed a
\* neighbour to a wave of several tiles, which now waits for propagation
NeighbourNarrowedByUnion ==
    /\ pc = "propagate"
    /\ \E e \in propagated : \E o \in DOMAIN Connectivity(e) :
          /\ Cardinality(waves[e]) > 1
          /\ Connectivity(e)[o] \in need_propagation
          /\ Cardinality(waves[Connectivity(e)[o]]) > 1
          /\ waves[Connectivity(e)[o]] =
                tiles[Connectivity(e)[o]] \cap
                    UNION {AllowedOf(t, o) : t \in waves[e]}
          /\ waves[Connectivity(e)[o]] # tiles[Connectivity(e)[o]]

\* rotated(t, k): the tile t's prototype makes from t's orientation turned by k
RotatedTile(t, k) == make_rotated_tile(t.prototype_index, t.orientation, k)

\* the entries <<t, o, a>> of a table: a is in Allowed[t][o]
Entries(table) ==
    {e \in (DOMAIN table) \X Orientations \X SelectableTiles :
        InAllowed(table, e[1], e[2], e[3])}

\* C26: the expanded table holds exactly the entries rotated(a, k) in
\* Allowed[rotated(t, k)][o.rotated(k)] for the authored entries a in
\* Allowed[t][o] and k in 0..3, its keys are exactly the rotated(t, k) of the
\* authored keys, and it holds no tile and no orientation besides
RotationExpansionExact ==
    pc = "observe" =>
        LET authored == ExtractRules(rule_tiles)
        IN /\ Entries(alloweds) =
                 {<<RotatedTile(e[1], k), rotated(e[2], k), RotatedTile(e[3], k)>> :
                     e \in Entries(authored), k \in 0..3}
           /\ DOMAIN alloweds =
                 {RotatedTile(t, k) : t \in DOMAIN authored, k \in 0..3}
           /\ \A t \in DOMAIN alloweds : \A o \in DOMAIN alloweds[t] :
                 /\ o \in Orientations
                 /\ alloweds[t][o] # {}
                 /\ alloweds[t][o] \subseteq SelectableTiles

\* C26 witness: a table is expanded from a rule grid in which a HalfTurn tile
\* has a neighbour without symmetry, put on the grid turned
ExpandedHalfTurnNextToTurned ==
    /\ pc = "observe"
    /\ \E e \in Entries(ExtractRules(rule_tiles)) :
          /\ equivalences(e[1].prototype_index) = "HalfTurn"
          /\ equivalences(e[3].prototype_index) = "None"
          /\ e[3].orientation # North
          /\ Cardinality(Entries(alloweds)) >= 8

\* C27: while no cell has an entropy above 1, every step but the reset that
\* follows a rule change leaves the tiles of every cell as they are: collapse
\* copies them, observes nothing, pops nothing and writes the same waves back
StableIsTerminal ==
    [][((\A c \in Cells : Cardinality(tiles[c]) <= 1) /\ pc # "expand") =>
          /\ tiles' = tiles
          /\ pc' = "propagate" =>
                /\ waves' = tiles
                /\ need_propagation' = {}
                /\ pops' = 0]_vars

\* C27 witness: collapse has run on an output that was stable, with a cell
\* resolved and a cell impossible, and has observed nothing
TickOnStableOutput ==
    /\ pc = "propagate"
    /\ need_propagation = {}
    /\ propagated = {}
    /\ waves = tiles
    /\ \A c \in Cells : Cardinality(tiles[c]) <= 1
    /\ \E c, d \in Cells : Cardinality(tiles[c]) = 1 /\ tiles[d] = {}

\* C28: make_rotated_tile returns the rotated orientation for the class
\* None, North or East by the axis of the rotated orientation for HalfTurn,
\* North for QuarterTurn; amounts that differ by a half turn (HalfTurn) or by
\* any number of quarter turns (QuarterTurn) give the same tile, and the tile
\* returned is returned again from its own orientation with rotation 0
CanonicalisationByClass ==
    LET o == rotated(orientation, rotation)
        t == make_rotated_tile(prototype, orientation, rotation)
    IN /\ t.prototype_index = prototype
       /\ equivalences(prototype) = "None" => t.orientation = o
       /\ equivalences(prototype) = "HalfTurn" =>
             /\ o \in {North, South} => t.orientation = North
             /\ o \in {East, West} => t.orientation = East
             /\ make_rotated_tile(prototype, orientation, rotation + 2) = t
       /\ equivalences(prototype) = "QuarterTurn" =>
             /\ t.orientation = North
             /\ \A j \in 1..3 :
                   make_rotated_tile(prototype, orientation, rotation + j) = t
       /\ make_rotated_tile(t.prototype_index, t.orientation, 0) = t
       /\ (made # None /\ made # Some(make_tile(prototype, orientation))) =>
             made = Some(t)

\* C28 witness: a HalfTurn prototype has made its East tile from an
\* orientation that a negative rotation turns to West
HalfTurnMadeEastFromWest ==
    /\ equivalences(prototype) = "HalfTurn"
    /\ rotation < 0
    /\ orientation # East
    /\ rotated(orientation, rotation) = West
    /\ made = Some(make_tile(prototype, East))

\* C29: from every coordinate of the output grid and of the rule grid, the
\* offset of the opposite orientation undoes the offset of an orientation,
\* and the four offsets are four coordinates, each one step away along one
\* axis and equal along the other
OppositeOffsetsInverse ==
    \A c \in Cells \cup RuleCoords :
        /\ \A o \in Orientations :
              /\ offset(rotated(o, 2), offset(o, c)) = c
              /\ LET dx == offset(o, c)[1] - c[1]
                     dy == offset(o, c)[2] - c[2]
                 IN \/ dx \in {0 - 1, 1} /\ dy = 0
                    \/ dx = 0 /\ dy \in {0 - 1, 1}
        /\ Cardinality({offset(o, c) : o \in Orientations}) = 4

\* C29 witness: the first cell popped is the corner <<1, 1>> of the 2 x 2
\* grid and the cells at its East and South offsets were narrowed
CornerOffsetsEastAndSouth ==
    /\ pc = "propagate"
    /\ pops = 1
    /\ propagated = {<<1, 1>>}
    /\ <<1, 1>> \in Cells
    /\ offset(East, <<1, 1>>) = <<0, 1>>
    /\ offset(South, <<1, 1>>) = <<1, 0>>
    /\ waves[offset(East, <<1, 1>>)] # tiles[offset(East, <<1, 1>>)]
    /\ waves[offset(South, <<1, 1>>)] # tiles[offset(South, <<1, 1>>)]

\* C30: rules.alloweds changes only while collapse processes a rule change;
\* the copy of the state, the observation, every turn of the while loop, the
\* write-back and pick_tile leave it as it is
AdjacencyTableReadOnly ==
    [][(\/ pc = "collapse" /\ events = 0
        \/ pc \in {"observe", "propagate", "input"}) =>
          alloweds' = alloweds]_vars

\* C30 witness: the loop of a tick has drained after three pops and left a
\* narrowed cell undecided, under the table expanded from the rule grid
SolvedUnderTheExpandedTable ==
    /\ pc = "propagate"
    /\ need_propagation = {}
    /\ pops >= 3
    /\ events = 0
    /\ \E c \in Cells : Cardinality(waves[c]) > 1 /\ waves[c] # tiles[c]
    /\ alloweds # EmptyMap
    /\ alloweds = expand_with_rotations(ExtractRules(rule_tiles))

\* C31: a call of TileSelection::make_tile returns no tile when no prototype
\* is selected and else the tile the prototype makes from North with the
\* accumulated rotation; rotations r and r + 4 select the same tile, and the
\* tile selected is one make_rotated_tile returns for the prototype
TileSelectionMakesRotatedTile ==
    /\ [][(made' # made /\ selection' = selection) =>
             made' = IF selection.prototype = None THEN None
                     ELSE {make_rotated_tile(p, North, selection.rotation) :
                              p \in selection.prototype}]_vars
    /\ [](/\ selection.prototype = None =>
                selection_make_tile(selection.prototype, selection.rotation) = None
           /\ selection_make_tile(selection.prototype, selection.rotation + 4) =
                selection_make_tile(selection.prototype, selection.rotation)
           /\ \A t \in selection_make_tile(selection.prototype, selection.rotation) :
                 /\ t.prototype_index \in selection.prototype
                 /\ Canonical(t))

\* C31 witness: with a HalfTurn prototype selected and the wheel turned back
\* by three steps, the selection has made the prototype's East tile
SelectionMadeEastFromNegative ==
    /\ selection.rotation = 0 - 3
    /\ \E p \in selection.prototype :
          /\ equivalences(p) = "HalfTurn"
          /\ made = Some(make_tile(p, East))

\* C32: a run of pick_tile sends one RulesNeedUpdateEvent when it replaced
\* the tile of a rule cell by a different value and none otherwise; collapse
\* resets the cells in the next frame exactly when an event was sent
RulesChangedSignal ==
    [][/\ pc = "input" =>
             /\ rule_tiles' # rule_tiles => events' = events + 1
             /\ rule_tiles' = rule_tiles => events' = events
             /\ pc' = "collapse"
       /\ (pc = "collapse" /\ events = 0) =>
             /\ pc' = "propagate"
             /\ tiles' = tiles
             /\ alloweds' = alloweds
       /\ (pc = "collapse" /\ events > 0) =>
             /\ pc' = "expand"
             /\ events' = 0]_vars

\* C32 witness: the second edit of the rule grid has sent its event while a
\* cell of the output is resolved
SecondEditSignalled ==
    /\ pc = "collapse"
    /\ events = 1
    /\ edits = 2
    /\ \E c \in RuleCoords : rule_tiles[c] # None
    /\ \E c \in Cells : Cardinality(tiles[c]) = 1

\* C33: except between the reading of a changed rule grid and the reset,
\* every tile of every cell, in the component and in collapse's local waves,
\* is a key of rules.alloweds; every tile of every allowed set is a key at
\* all times, so the lookup of a tile of a popped wave finds its entry
WavesWithinTileUniverse ==
    /\ pc # "expand" =>
          /\ \A c \in Cells : tiles[c] \subseteq DOMAIN alloweds
          /\ pc = "propagate" =>
                /\ DOMAIN waves = Cells
                /\ \A c \in Cells : waves[c] \subseteq DOMAIN alloweds
                /\ \A e \in need_propagation : \A value \in waves[e] :
                      value \in DOMAIN alloweds
    /\ \A t \in DOMAIN alloweds : \A o \in DOMAIN alloweds[t] :
          alloweds[t][o] \subseteq DOMAIN alloweds

\* C33 witness: under a table whose keys include turned tiles, two entities
\* were popped and one that waits holds several tiles
SeveralValuesLookedUp ==
    /\ pc = "propagate"
    /\ pops >= 2
    /\ \E t \in DOMAIN alloweds : t.orientation # North
    /\ \E e \in need_propagation : Cardinality(waves[e]) > 1

\* C34 as stated: at the end of a tick, two adjacent cells resolved to t and
\* t2, the second the neighbour of the first towards o, have t2 in Allowed[t][o]
ResolvedNeighboursCompatible ==
    pc = "input" =>
        \A c \in Cells : \A o \in DOMAIN Connectivity(c) :
        \A t \in tiles[c] : \A t2 \in tiles[Connectivity(c)[o]] :
            (tiles[c] = {t} /\ tiles[Connectivity(c)[o]] = {t2})
            => InAllowed(alloweds, t, o, t2)

\* C34 amended: at the end of a tick, two adjacent cells resolved to t and t2,
\* the second the neighbour of the first towards o, have t2 in Allowed[t][o]
\* unless t has no entry for o; when one of the two was popped in the tick
\* the entry exists and holds t2
ResolvedNeighboursCompatibleOrNoEntry ==
    /\ pc = "input" =>
          \A c \in Cells : \A o \in DOMAIN Connectivity(c) :
          \A t \in tiles[c] : \A t2 \in tiles[Connectivity(c)[o]] :
              (tiles[c] = {t} /\ tiles[Connectivity(c)[o]] = {t2})
              => (o \in DOMAIN alloweds[t] => t2 \in alloweds[t][o])
    /\ (pc = "propagate" /\ need_propagation = {}) =>
          \A c \in Cells : \A o \in DOMAIN Connectivity(c) :
          \A t \in waves[c] : \A t2 \in waves[Connectivity(c)[o]] :
              (/\ waves[c] = {t} /\ waves[Connectivity(c)[o]] = {t2}
               /\ (c \in propagated \/ Connectivity(c)[o] \in propagated))
              => InAllowed(alloweds, t, o, t2)

\* C34 witness: a tick has ended with two adjacent cells resolved to two
\* different tiles, the first with an entry towards the second
TwoTilesResolvedSideBySide ==
    /\ pc = "input"
    /\ \E c \in Cells : \E o \in DOMAIN Connectivity(c) :
          /\ Cardinality(tiles[c]) = 1
          /\ Cardinality(tiles[Connectivity(c)[o]]) = 1
          /\ tiles[c] # tiles[Connectivity(c)[o]]
          /\ \A t \in tiles[c] : o \in DOMAIN alloweds[t]

====
